---------------------------- MODULE Spec2Model ----------------------------
(***************************************************************************)
(* Model of the trajectory integration core of the MKM laboratory works:   *)
(*   laboratory_work1/2DSpace.py   simulate_trajectory      (2D, Magnus)   *)
(*   laboratory_work1/3DSpace.py   simulate_trajectory_3d   (3D, drag)     *)
(*   laboratory_work2/LorentzAttractorWithoutScipy.py                      *)
(*                                 lorenz, integrate_lorenz (RK4)          *)
(*                                                                         *)
(* Python/numpy float64 values are modelled as decimal fixed-point         *)
(* numbers: the integer n stands for the real n / SCALE.  Addition is      *)
(* exact, multiplication, division and square root round to the nearest    *)
(* representable value (ties to even), a result whose magnitude exceeds    *)
(* MaxFloat overflows to an infinity, and the IEEE special values inf,     *)
(* -inf and nan follow the IEEE rules.                                     *)
(***************************************************************************)
EXTENDS Integers, Sequences, FiniteSets, TLC

(***************************************************************************)
(* Bounds of the number model.                                             *)
(***************************************************************************)
\* units per 1.0: the precision of the modelled float
SCALE == 10000
\* largest finite magnitude of the modelled float (in units of 1/SCALE)
MaxFloat == 200000000
\* cap on the number of loop iterations of one projectile run
MaxSamples == 60

PosInf == MaxFloat + 1
NegInf == -(MaxFloat + 1)
NaN == MaxFloat + 2
\* content of a cell of np.empty that was never written
Uninit == MaxFloat + 3

IsNaN(a) == a = NaN
IsInf(a) == a = PosInf \/ a = NegInf
IsFinite(a) == a >= -MaxFloat /\ a <= MaxFloat
Abs(a) == IF a < 0 THEN -a ELSE a
Sgn(a) == IF a < 0 THEN -1 ELSE IF a > 0 THEN 1 ELSE 0
\* a finite or infinite value with the sign s
Signed(s, a) == IF s < 0 THEN -a ELSE a
\* overflow of an exact integer result to an infinity
Norm(n) == IF n > MaxFloat THEN PosInf ELSE IF n < -MaxFloat THEN NegInf ELSE n
\* round the quotient q with remainder r of a division by d: nearest, ties to even
RoundQ(q, r, d) == IF 2 * r > d \/ (2 * r = d /\ q % 2 = 1) THEN q + 1 ELSE q

\* unary minus
Neg(a) == IF IsNaN(a) THEN NaN ELSE -a

\* a + b
Add(a, b) ==
    IF IsNaN(a) \/ IsNaN(b) THEN NaN
    ELSE IF IsInf(a) THEN (IF IsInf(b) /\ b # a THEN NaN ELSE a)
    ELSE IF IsInf(b) THEN b
    ELSE Norm(a + b)

\* a - b
Sub(a, b) == Add(a, Neg(b))

\* |a| * |b| for finite operands, computed without leaving 32 bits
MulAbs(a, b) ==
    LET ah == a \div SCALE
        al == a % SCALE
        bh == b \div SCALE
        bl == b % SCALE
        hi == ah * bh
        lo == al * bl
    IN  IF hi > MaxFloat \div SCALE THEN PosInf
        ELSE Norm(RoundQ(hi * SCALE + ah * bl + al * bh + lo \div SCALE,
                         lo % SCALE, SCALE))

\* a * b
Mul(a, b) ==
    IF IsNaN(a) \/ IsNaN(b) THEN NaN
    ELSE IF IsInf(a) \/ IsInf(b)
         THEN (IF a = 0 \/ b = 0 THEN NaN ELSE Signed(Sgn(a) * Sgn(b), PosInf))
    ELSE Signed(Sgn(a) * Sgn(b), MulAbs(Abs(a), Abs(b)))

\* <<q, rem>> with r * s = q * d + rem, for 0 <= r < d, by doubling
RECURSIVE MulDivRem(_, _, _)
MulDivRem(r, s, d) ==
    IF s = 0 THEN <<0, 0>>
    ELSE LET h == MulDivRem(r, s \div 2, d)
             q2 == 2 * h[1] + (IF 2 * h[2] >= d THEN 1 ELSE 0)
             r2 == IF 2 * h[2] >= d THEN 2 * h[2] - d ELSE 2 * h[2]
         IN  IF s % 2 = 0 THEN <<q2, r2>>
             ELSE IF r2 + r >= d THEN <<q2 + 1, r2 + r - d>>
             ELSE <<q2, r2 + r>>

\* |a| / |b| for finite operands, b # 0
DivAbs(a, b) ==
    LET q0 == a \div b
        f  == MulDivRem(a % b, SCALE, b)
    IN  IF q0 > MaxFloat \div SCALE THEN PosInf
        ELSE Norm(RoundQ(q0 * SCALE + f[1], f[2], b))

\* a / b of numpy floats: a division by zero gives inf or nan, no exception
Div(a, b) ==
    IF IsNaN(a) \/ IsNaN(b) THEN NaN
    ELSE IF b = 0 THEN (IF a = 0 THEN NaN ELSE Signed(Sgn(a), PosInf))
    ELSE IF IsInf(a) THEN (IF IsInf(b) THEN NaN ELSE Signed(Sgn(a) * Sgn(b), PosInf))
    ELSE IF IsInf(b) THEN 0
    ELSE Signed(Sgn(a) * Sgn(b), DivAbs(Abs(a), Abs(b)))

\* <<q, rem>> with r * r = q * SCALE + rem
SqParts(r) ==
    LET rh == r \div SCALE
        rl == r % SCALE
    IN  <<rh * rh * SCALE + 2 * rh * rl + (rl * rl) \div SCALE, (rl * rl) % SCALE>>

\* r * r <= a * SCALE
SqLeq(r, a) ==
    LET rh == r \div SCALE
    IN  IF rh * rh > a \div SCALE THEN FALSE
        ELSE LET p == SqParts(r) IN p[1] < a \/ (p[1] = a /\ p[2] = 0)

\* the largest r in lo..hi with r * r <= a * SCALE
RECURSIVE SqrtSearch(_, _, _)
SqrtSearch(lo, hi, a) ==
    IF lo >= hi THEN lo
    ELSE LET mid == (lo + hi + 1) \div 2
         IN  IF SqLeq(mid, a) THEN SqrtSearch(mid, hi, a)
             ELSE SqrtSearch(lo, mid - 1, a)

\* np.sqrt
Sqrt(a) ==
    IF IsNaN(a) \/ a < 0 THEN NaN
    ELSE IF a = PosInf THEN PosInf
    ELSE LET r == SqrtSearch(0, a + SCALE, a)
             p == SqParts(r)
             d == (a - p[1]) * SCALE - p[2]
         IN  IF d > r THEN r + 1 ELSE r

\* Python comparisons: every comparison with nan is false, except !=
Ge(a, b) == ~IsNaN(a) /\ ~IsNaN(b) /\ a >= b
Ne(a, b) == IsNaN(a) \/ IsNaN(b) \/ a # b

(***************************************************************************)
(* Literals and library functions.                                         *)
(***************************************************************************)
\* the float literal n/d, n >= 0, rounded to the nearest representable value
Lit(n, d) == RoundQ((n * SCALE) \div d, (n * SCALE) % d, d)
\* 0.5
HALF == Lit(1, 2)
\* g = 9.81
g == Lit(981, 100)
\* rho = 1.29, the air density of the projectile simulators
rho_air == Lit(129, 100)
\* np.pi
PI == Lit(31416, 10000)

\* np.cos(np.deg2rad(a)) and np.sin(np.deg2rad(a)) for the angles of the model
CosDeg(a) ==
    CASE a = 0 -> Lit(1, 1)
      [] a = 30 \/ a = -30 -> Lit(8660, 10000)
      [] a = 45 -> Lit(7071, 10000)
      [] a = 60 -> Lit(1, 2)
      [] a = 90 -> 0
SinDeg(a) ==
    CASE a = 0 -> 0
      [] a = 30 -> Lit(1, 2)
      [] a = -30 -> -Lit(1, 2)
      [] a = 45 -> Lit(7071, 10000)
      [] a = 60 -> Lit(8660, 10000)
      [] a = 90 -> Lit(1, 1)

(***************************************************************************)
(* The state: the arguments of the running call, its position, its local   *)
(* variables and the lists and arrays it builds.                           *)
(***************************************************************************)
VARIABLES
    par,    \* the arguments of the call; par.kind names the function called
    pc,     \* "call", "loop", "returned" or "raised"
    exc,    \* the exception that ended the call, "" if none
    t, x, y, z, vx, vy, vz,            \* projectile: the running state
    T, X, Y, Z, VX, VY, VZ, VREL,      \* projectile: the recorded lists
    frc,    \* projectile: the force locals of the last loop iteration
    t_arr,  \* integrate_lorenz: the time grid t
    sol,    \* integrate_lorenz: the columns sol[:, 0..num_steps-1]
    i,      \* integrate_lorenz: the loop index
    other   \* a second call in progress at the same time, as a value (see CallRun)

vars == <<par, pc, exc, t, x, y, z, vx, vy, vz, T, X, Y, Z, VX, VY, VZ, VREL,
          frc, t_arr, sol, i, other>>
projVars == <<t, x, y, z, vx, vy, vz, T, X, Y, Z, VX, VY, VZ, VREL, frc>>
lorVars == <<t_arr, sol, i>>

\* the force locals before the first iteration has set them
NoForces == [v_rel |-> 0, Fdx |-> 0, Fdy |-> 0, Fdz |-> 0, F_Mx |-> 0, F_My |-> 0,
             ax |-> 0, ay |-> 0, az |-> 0, divs |-> 0]

(***************************************************************************)
(* Projectile force model.                                                 *)
(***************************************************************************)
\* A = np.pi * radius ** 2
Area(radius) == Mul(PI, Mul(radius, radius))

\* the drag force of one axis where v_rel != 0: -Fd * (c_rel / v_rel)
DragAxis(Fd, c_rel, v_rel) == Mul(Neg(Fd), Div(c_rel, v_rel))

\* the linear-drag bug: Fd = 0.5 * rho * Cd * A * v_rel
DragMagnitudeLinear(Cd, A, v_rel) ==
    Mul(Mul(Mul(Mul(HALF, rho_air), Cd), A), v_rel)

\* the coefficient bug: Cd is left out of the product
DragMagnitudeNoCd(Cd, A, v_rel) ==
    Mul(Mul(Mul(HALF, rho_air), A), Mul(v_rel, v_rel))

\* Fd = 0.5 * rho * Cd * A * v_rel ** 2
DragMagnitude(Cd, A, v_rel) ==
    Mul(Mul(Mul(Mul(HALF, rho_air), Cd), A), Mul(v_rel, v_rel))

\* the drag bug: the branch on v_rel is missing, the division is always evaluated
DragNoBranch(Cd, A, rel, v_rel) ==
    LET Fd == DragMagnitude(Cd, A, v_rel)
    IN  [F |-> [k \in DOMAIN rel |-> DragAxis(Fd, rel[k], v_rel)],
         divs |-> Len(rel)]

\* the drag force on every axis of rel, and the number of divisions by v_rel
Drag(Cd, A, rel, v_rel) ==
    IF Ne(v_rel, 0)
    THEN LET Fd == DragMagnitude(Cd, A, v_rel)
         IN  [F |-> [k \in DOMAIN rel |-> DragAxis(Fd, rel[k], v_rel)],
              divs |-> Len(rel)]
    ELSE [F |-> [k \in DOMAIN rel |-> 0], divs |-> 0]

\* the sign bug: F_My has the sign of F_Mx, the force is not a rotation of rel
MagnusSameSign(A, radius, omega, rel, v_rel) ==
    IF Ne(v_rel, 0)
    THEN <<Mul(Mul(Mul(Mul(Mul(HALF, rho_air), A), radius), omega), rel[2]),
           Mul(Mul(Mul(Mul(Mul(HALF, rho_air), A), radius), omega), rel[1])>>
    ELSE <<0, 0>>

\* the Magnus force <<F_Mx, F_My>> of the 2D simulator
Magnus(A, radius, omega, rel, v_rel) ==
    IF Ne(v_rel, 0)
    THEN <<Mul(Mul(Mul(Mul(Mul(HALF, rho_air), A), radius), omega), rel[2]),
           Mul(Mul(Mul(Mul(Mul(Neg(HALF), rho_air), A), radius), omega), rel[1])>>
    ELSE <<0, 0>>

\* F / mass raises ZeroDivisionError: F is the Python int 0 of the else branch
\* (not a numpy float) and mass is zero
RaisesZeroDivision(v_rel, mass) == ~Ne(v_rel, 0) /\ mass = 0

\* the gravity bug: g is treated as a force and divided by the mass
VerticalAccelWeight(F, mass) == Div(Add(Neg(g), F), mass)

\* the vertical acceleration: -g + F / mass
VerticalAccel(F, mass) == Add(Neg(g), Div(F, mass))

\* explicit Euler: the position is advanced with the velocity before its update
AdvanceExplicit(pos, vel, acc, dt) ==
    <<Add(pos, Mul(vel, dt)), Add(vel, Mul(acc, dt))>>

\* one axis of the update: v += a * dt, then pos += v * dt; <<pos, v>>
Advance(pos, vel, acc, dt) ==
    LET v2 == Add(vel, Mul(acc, dt)) IN <<Add(pos, Mul(v2, dt)), v2>>

\* the loop-condition bug: while altitude > 0
LoopCondStrict(alt) == ~IsNaN(alt) /\ alt > 0

\* the loop condition of both simulators: while altitude >= 0
LoopCond(alt) == Ge(alt, 0)

\* the clock bug: t = dt instead of t += dt
TimeAssign(tm, dt) == dt

\* t += dt at the end of the loop body
TimeAdvance(tm, dt) == Add(tm, dt)

\* the list bug: the list is rebuilt from the current sample instead of extended
RecordReplace(list, pre, post) == <<pre>>

\* the recording bug: the sample is appended after the update
RecordAfter(list, pre, post) == Append(list, post)

\* list.append at the head of the loop body: the state before the update
Record(list, pre, post) == Append(list, pre)

(***************************************************************************)
(* simulate_trajectory (2D).                                               *)
(***************************************************************************)
\* the locals after one pass through the loop body from the state s = [t, x, y, vx, vy]
Body2D(p, s) ==
    LET A     == Area(p.radius)
        rel   == <<Sub(s.vx, p.wind[1]), Sub(s.vy, p.wind[2])>>
        v_rel == Sqrt(Add(Mul(rel[1], rel[1]), Mul(rel[2], rel[2])))
        d     == Drag(p.Cd, A, rel, v_rel)
        m     == Magnus(A, p.radius, p.omega, rel, v_rel)
        ax    == Div(Add(d.F[1], m[1]), p.mass)
        ay    == VerticalAccel(Add(d.F[2], m[2]), p.mass)
        hx    == Advance(s.x, s.vx, ax, p.dt)
        hy    == Advance(s.y, s.vy, ay, p.dt)
    IN  [raises |-> RaisesZeroDivision(v_rel, p.mass),
         frc |-> [v_rel |-> v_rel, Fdx |-> d.F[1], Fdy |-> d.F[2], Fdz |-> 0,
                  F_Mx |-> m[1], F_My |-> m[2], ax |-> ax, ay |-> ay, az |-> 0,
                  divs |-> d.divs],
         t |-> TimeAdvance(s.t, p.dt), x |-> hx[1], y |-> hy[1], vx |-> hx[2], vy |-> hy[2]]

\* the launch bug: sine and cosine of the launch angle are exchanged
Start2DSwapped ==
    /\ pc = "call" /\ par.kind = "2d"
    /\ vx' = Mul(par.v0, SinDeg(par.angle_deg))
    /\ vy' = Mul(par.v0, CosDeg(par.angle_deg))
    /\ x' = 0 /\ y' = 0 /\ t' = 0
    /\ T' = <<>> /\ X' = <<>> /\ Y' = <<>> /\ VX' = <<>> /\ VY' = <<>> /\ VREL' = <<>>
    /\ pc' = "loop"
    /\ UNCHANGED <<other, par, exc, z, vz, Z, VZ, frc, lorVars>>

\* the lines before the loop: launch velocity, origin, empty lists
Start2D ==
    /\ pc = "call" /\ par.kind = "2d"
    /\ vx' = Mul(par.v0, CosDeg(par.angle_deg))
    /\ vy' = Mul(par.v0, SinDeg(par.angle_deg))
    /\ x' = 0 /\ y' = 0 /\ t' = 0
    /\ T' = <<>> /\ X' = <<>> /\ Y' = <<>> /\ VX' = <<>> /\ VY' = <<>> /\ VREL' = <<>>
    /\ pc' = "loop"
    /\ UNCHANGED <<other, par, exc, z, vz, Z, VZ, frc, lorVars>>

\* one iteration of the while loop: record the sample, then update the state
Iterate2D ==
    /\ pc = "loop" /\ par.kind = "2d"
    /\ LoopCond(y)
    /\ Len(T) < MaxSamples
    /\ \E b \in {Body2D(par, [t |-> t, x |-> x, y |-> y, vx |-> vx, vy |-> vy])} :
       LET n == IF b.raises THEN [t |-> t, x |-> x, y |-> y, vx |-> vx, vy |-> vy]
                ELSE b
       IN  /\ T' = Record(T, t, n.t)
           /\ X' = Record(X, x, n.x)
           /\ Y' = Record(Y, y, n.y)
           /\ VX' = Record(VX, vx, n.vx)
           /\ VY' = Record(VY, vy, n.vy)
           /\ VREL' = Append(VREL, b.frc.v_rel)
           /\ t' = n.t /\ x' = n.x /\ y' = n.y /\ vx' = n.vx /\ vy' = n.vy
           /\ IF b.raises
              THEN /\ frc' = [b.frc EXCEPT !.ax = frc.ax, !.ay = frc.ay]
                   /\ pc' = "raised" /\ exc' = "ZeroDivisionError"
              ELSE /\ frc' = b.frc
                   /\ UNCHANGED <<pc, exc>>
    /\ UNCHANGED <<other, par, z, vz, Z, VZ, lorVars>>

\* the loop condition fails: the lists are returned as arrays
Return2D ==
    /\ pc = "loop" /\ par.kind = "2d"
    /\ ~LoopCond(y)
    /\ pc' = "returned"
    /\ UNCHANGED <<other, par, exc, projVars, lorVars>>

(***************************************************************************)
(* simulate_trajectory_3d.                                                 *)
(***************************************************************************)
\* the locals after one pass through the loop body from s = [t, x, y, z, vx, vy, vz]
Body3D(p, s) ==
    LET A     == Area(p.radius)
        rel   == <<Sub(s.vx, p.wind[1]), Sub(s.vy, p.wind[2]), Sub(s.vz, p.wind[3])>>
        v_rel == Sqrt(Add(Add(Mul(rel[1], rel[1]), Mul(rel[2], rel[2])),
                          Mul(rel[3], rel[3])))
        d     == Drag(p.Cd, A, rel, v_rel)
        ax    == Div(d.F[1], p.mass)
        ay    == Div(d.F[2], p.mass)
        az    == VerticalAccel(d.F[3], p.mass)
        hx    == Advance(s.x, s.vx, ax, p.dt)
        hy    == Advance(s.y, s.vy, ay, p.dt)
        hz    == Advance(s.z, s.vz, az, p.dt)
    IN  [raises |-> RaisesZeroDivision(v_rel, p.mass),
         frc |-> [v_rel |-> v_rel, Fdx |-> d.F[1], Fdy |-> d.F[2], Fdz |-> d.F[3],
                  F_Mx |-> 0, F_My |-> 0, ax |-> ax, ay |-> ay, az |-> az,
                  divs |-> d.divs],
         t |-> TimeAdvance(s.t, p.dt), x |-> hx[1], y |-> hy[1], z |-> hz[1],
         vx |-> hx[2], vy |-> hy[2], vz |-> hz[2]]

\* the azimuth bug: sine and cosine of the azimuth are exchanged
Start3DSwapped ==
    /\ pc = "call" /\ par.kind = "3d"
    /\ vx' = Mul(Mul(par.v0, CosDeg(par.angle_deg)), SinDeg(par.azimuth_deg))
    /\ vy' = Mul(Mul(par.v0, CosDeg(par.angle_deg)), CosDeg(par.azimuth_deg))
    /\ vz' = Mul(par.v0, SinDeg(par.angle_deg))
    /\ x' = 0 /\ y' = 0 /\ z' = 0 /\ t' = 0
    /\ T' = <<>> /\ X' = <<>> /\ Y' = <<>> /\ Z' = <<>>
    /\ VX' = <<>> /\ VY' = <<>> /\ VZ' = <<>> /\ VREL' = <<>>
    /\ pc' = "loop"
    /\ UNCHANGED <<other, par, exc, frc, lorVars>>

\* the lines before the loop: launch velocity, origin, empty lists
Start3D ==
    /\ pc = "call" /\ par.kind = "3d"
    /\ vx' = Mul(Mul(par.v0, CosDeg(par.angle_deg)), CosDeg(par.azimuth_deg))
    /\ vy' = Mul(Mul(par.v0, CosDeg(par.angle_deg)), SinDeg(par.azimuth_deg))
    /\ vz' = Mul(par.v0, SinDeg(par.angle_deg))
    /\ x' = 0 /\ y' = 0 /\ z' = 0 /\ t' = 0
    /\ T' = <<>> /\ X' = <<>> /\ Y' = <<>> /\ Z' = <<>>
    /\ VX' = <<>> /\ VY' = <<>> /\ VZ' = <<>> /\ VREL' = <<>>
    /\ pc' = "loop"
    /\ UNCHANGED <<other, par, exc, frc, lorVars>>

\* one iteration of the while loop: record the sample, then update the state
Iterate3D ==
    /\ pc = "loop" /\ par.kind = "3d"
    /\ LoopCond(z)
    /\ Len(T) < MaxSamples
    /\ \E s \in {[t |-> t, x |-> x, y |-> y, z |-> z, vx |-> vx, vy |-> vy, vz |-> vz]} :
       \E b \in {Body3D(par, s)} :
       LET n == IF b.raises THEN s ELSE b
       IN  /\ T' = Record(T, t, n.t)
           /\ X' = Record(X, x, n.x)
           /\ Y' = Record(Y, y, n.y)
           /\ Z' = Record(Z, z, n.z)
           /\ VX' = Record(VX, vx, n.vx)
           /\ VY' = Record(VY, vy, n.vy)
           /\ VZ' = Record(VZ, vz, n.vz)
           /\ VREL' = Append(VREL, b.frc.v_rel)
           /\ t' = n.t /\ x' = n.x /\ y' = n.y /\ z' = n.z
           /\ vx' = n.vx /\ vy' = n.vy /\ vz' = n.vz
           /\ IF b.raises
              THEN /\ frc' = [b.frc EXCEPT !.ax = frc.ax, !.ay = frc.ay, !.az = frc.az]
                   /\ pc' = "raised" /\ exc' = "ZeroDivisionError"
              ELSE /\ frc' = b.frc
                   /\ UNCHANGED <<pc, exc>>
    /\ UNCHANGED <<other, par, lorVars>>

\* the loop condition fails: the lists are returned as arrays
Return3D ==
    /\ pc = "loop" /\ par.kind = "3d"
    /\ ~LoopCond(z)
    /\ pc' = "returned"
    /\ UNCHANGED <<other, par, exc, projVars, lorVars>>

(***************************************************************************)
(* lorenz and integrate_lorenz.                                            *)
(***************************************************************************)
\* the int literals 2 and 6 of the RK4 formula
TWO == Lit(2, 1)
SIX == Lit(6, 1)

\* numpy array arithmetic on 3-vectors: u + v and c * v
VAdd(u, v) == <<Add(u[1], v[1]), Add(u[2], v[2]), Add(u[3], v[3])>>
VScale(c, v) == <<Mul(c, v[1]), Mul(c, v[2]), Mul(c, v[3])>>

\* the operator bug: x + y in place of x * y in dzdt
LorenzSumBug(tm, state, sigma, rh, beta) ==
    <<Mul(sigma, Sub(state[2], state[1])),
      Sub(Mul(state[1], Sub(rh, state[3])), state[2]),
      Sub(Add(state[1], state[2]), Mul(beta, state[3]))>>

\* the sign bug: x * (rho + z) in dydt
LorenzSignBug(tm, state, sigma, rh, beta) ==
    <<Mul(sigma, Sub(state[2], state[1])),
      Sub(Mul(state[1], Add(rh, state[3])), state[2]),
      Sub(Mul(state[1], state[2]), Mul(beta, state[3]))>>

\* lorenz(t, state, sigma, rho, beta)
Lorenz(tm, state, sigma, rh, beta) ==
    <<Mul(sigma, Sub(state[2], state[1])),
      Sub(Mul(state[1], Sub(rh, state[3])), state[2]),
      Sub(Mul(state[1], state[2]), Mul(beta, state[3]))>>

\* the in-place bug: lorenz stores the derivative into the array it was given
LorenzWritesBack(tm, state, sigma, rh, beta) == Lorenz(tm, state, sigma, rh, beta)

\* the array passed as state, after the call: lorenz unpacks it (x, y, z = state)
\* and returns a new array
LorenzStateAfter(tm, state, sigma, rh, beta) == state

\* the RK4 bug: k3 is evaluated from k1 instead of k2
RK4StepStaleK(current_t, y_current, dt, sigma, rh, beta) ==
    LET k1 == Lorenz(current_t, y_current, sigma, rh, beta)
        k2 == Lorenz(Add(current_t, Div(dt, TWO)),
                     VAdd(y_current, VScale(Div(dt, TWO), k1)), sigma, rh, beta)
        k3 == Lorenz(Add(current_t, Div(dt, TWO)),
                     VAdd(y_current, VScale(Div(dt, TWO), k1)), sigma, rh, beta)
        k4 == Lorenz(Add(current_t, dt),
                     VAdd(y_current, VScale(dt, k3)), sigma, rh, beta)
    IN  VAdd(y_current,
             VScale(Div(dt, SIX),
                    VAdd(VAdd(VAdd(k1, VScale(TWO, k2)), VScale(TWO, k3)), k4)))

\* the body of the for loop: the column sol[:, i + 1] from y_current = sol[:, i]
RK4Step(current_t, y_current, dt, sigma, rh, beta) ==
    LET k1 == Lorenz(current_t, y_current, sigma, rh, beta)
        k2 == Lorenz(Add(current_t, Div(dt, TWO)),
                     VAdd(y_current, VScale(Div(dt, TWO), k1)), sigma, rh, beta)
        k3 == Lorenz(Add(current_t, Div(dt, TWO)),
                     VAdd(y_current, VScale(Div(dt, TWO), k2)), sigma, rh, beta)
        k4 == Lorenz(Add(current_t, dt),
                     VAdd(y_current, VScale(dt, k3)), sigma, rh, beta)
    IN  VAdd(y_current,
             VScale(Div(dt, SIX),
                    VAdd(VAdd(VAdd(k1, VScale(TWO, k2)), VScale(TWO, k3)), k4)))

\* len(np.arange(0, stop, step)) for step # 0: max(0, ceil(stop / step))
ArangeLen(stop, step) ==
    LET n == IF step < 0 THEN -stop ELSE stop
        d == Abs(step)
    IN  IF n <= 0 THEN 0 ELSE (n + d - 1) \div d

\* num_steps = len(np.arange(0, t_max + dt, dt))
NumSteps(t_max, dt) == ArangeLen(Add(t_max, dt), dt)

\* t = np.arange(...); sol = np.empty((3, num_steps)); sol[:, 0] = init_state
LorenzStart ==
    /\ pc = "call" /\ par.kind = "lorenz"
    /\ IF par.dt = 0
       THEN /\ pc' = "raised" /\ exc' = "ZeroDivisionError"
            /\ UNCHANGED <<t_arr, sol, i>>
       ELSE LET num_steps == NumSteps(par.t_max, par.dt)
            IN  /\ t_arr' = [k \in 1..num_steps |-> Norm((k - 1) * par.dt)]
                /\ IF num_steps = 0
                   THEN /\ sol' = <<>>
                        /\ pc' = "raised" /\ exc' = "IndexError"
                   ELSE /\ sol' = [k \in 1..num_steps |->
                                     IF k = 1 THEN par.init_state
                                     ELSE <<Uninit, Uninit, Uninit>>]
                        /\ pc' = "loop" /\ exc' = exc
                /\ i' = 0
    /\ UNCHANGED <<other, par, projVars>>

\* the guarded loop: a sample that is not finite ends the call with an error
LorenzStepGuarded ==
    /\ pc = "loop" /\ par.kind = "lorenz"
    /\ i < Len(t_arr) - 1
    /\ \E nxt \in {RK4Step(t_arr[i + 1], sol[i + 1], par.dt,
                            par.sigma, par.rho, par.beta)} :
         /\ sol' = [sol EXCEPT ![i + 2] = nxt]
         /\ IF IsFinite(nxt[1]) /\ IsFinite(nxt[2]) /\ IsFinite(nxt[3])
            THEN UNCHANGED <<pc, exc>>
            ELSE pc' = "raised" /\ exc' = "FloatingPointError"
    /\ i' = i + 1
    /\ UNCHANGED <<other, par, t_arr, projVars>>

\* one iteration of for i in range(num_steps - 1); y_current is a view of the
\* column sol[:, i], which is the array the first call of lorenz receives
LorenzStep ==
    /\ pc = "loop" /\ par.kind = "lorenz"
    /\ i < Len(t_arr) - 1
    /\ sol' = [sol EXCEPT
                 ![i + 1] = LorenzStateAfter(t_arr[i + 1], sol[i + 1],
                                             par.sigma, par.rho, par.beta),
                 ![i + 2] = RK4Step(t_arr[i + 1], sol[i + 1], par.dt,
                                    par.sigma, par.rho, par.beta)]
    /\ i' = i + 1
    /\ UNCHANGED <<other, par, pc, exc, t_arr, projVars>>

\* the range is exhausted: return t, sol
LorenzReturn ==
    /\ pc = "loop" /\ par.kind = "lorenz"
    /\ i >= Len(t_arr) - 1
    /\ pc' = "returned"
    /\ UNCHANGED <<other, par, exc, lorVars, projVars>>

(***************************************************************************)
(* One activation of a simulator as a value: the arguments, the position   *)
(* in the code and the locals of the call.  RunStep is the step the        *)
(* actions above take, on such a value.                                    *)
(***************************************************************************)
\* a call that has not executed its first line
CallRun(p) ==
    [par |-> p, pc |-> "call", exc |-> "",
     t |-> 0, x |-> 0, y |-> 0, z |-> 0, vx |-> 0, vy |-> 0, vz |-> 0,
     T |-> <<>>, X |-> <<>>, Y |-> <<>>, Z |-> <<>>,
     VX |-> <<>>, VY |-> <<>>, VZ |-> <<>>, VREL |-> <<>>,
     t_arr |-> <<>>, sol |-> <<>>, i |-> 0]

\* the lines before the loop of the called function
RunStart(r) ==
    LET p == r.par
    IN  CASE p.kind = "2d" ->
               [r EXCEPT !.vx = Mul(p.v0, CosDeg(p.angle_deg)),
                         !.vy = Mul(p.v0, SinDeg(p.angle_deg)),
                         !.pc = "loop"]
          [] p.kind = "3d" ->
               [r EXCEPT !.vx = Mul(Mul(p.v0, CosDeg(p.angle_deg)), CosDeg(p.azimuth_deg)),
                         !.vy = Mul(Mul(p.v0, CosDeg(p.angle_deg)), SinDeg(p.azimuth_deg)),
                         !.vz = Mul(p.v0, SinDeg(p.angle_deg)),
                         !.pc = "loop"]
          [] p.kind = "lorenz" ->
               IF p.dt = 0
               THEN [r EXCEPT !.pc = "raised", !.exc = "ZeroDivisionError"]
               ELSE LET num_steps == NumSteps(p.t_max, p.dt)
                        grid == [k \in 1..num_steps |-> Norm((k - 1) * p.dt)]
                    IN  IF num_steps = 0
                        THEN [r EXCEPT !.t_arr = grid, !.pc = "raised",
                                       !.exc = "IndexError"]
                        ELSE [r EXCEPT !.t_arr = grid,
                                       !.sol = [k \in 1..num_steps |->
                                                  IF k = 1 THEN p.init_state
                                                  ELSE <<Uninit, Uninit, Uninit>>],
                                       !.pc = "loop"]

\* one iteration of the while loop, b being the locals after the loop body
RunIterate(r, b) ==
    LET n == IF b.raises THEN r ELSE b
        z1 == IF r.par.kind = "3d" THEN n.z ELSE r.z
        vz1 == IF r.par.kind = "3d" THEN n.vz ELSE r.vz
    IN  [r EXCEPT !.T = Record(r.T, r.t, n.t),
                  !.X = Record(r.X, r.x, n.x),
                  !.Y = Record(r.Y, r.y, n.y),
                  !.Z = IF r.par.kind = "3d" THEN Record(r.Z, r.z, z1) ELSE r.Z,
                  !.VX = Record(r.VX, r.vx, n.vx),
                  !.VY = Record(r.VY, r.vy, n.vy),
                  !.VZ = IF r.par.kind = "3d" THEN Record(r.VZ, r.vz, vz1) ELSE r.VZ,
                  !.VREL = Append(r.VREL, b.frc.v_rel),
                  !.t = n.t, !.x = n.x, !.y = n.y, !.z = z1,
                  !.vx = n.vx, !.vy = n.vy, !.vz = vz1,
                  !.pc = IF b.raises THEN "raised" ELSE r.pc,
                  !.exc = IF b.raises THEN "ZeroDivisionError" ELSE r.exc]

\* the next position of the activation r; r itself once the call has ended
RunStep(r) ==
    LET p == r.par
        alt == IF p.kind = "2d" THEN r.y ELSE r.z
    IN  CASE r.pc = "call" -> RunStart(r)
          [] r.pc = "loop" /\ p.kind \in {"2d", "3d"} ->
               IF ~LoopCond(alt) THEN [r EXCEPT !.pc = "returned"]
               ELSE IF Len(r.T) >= MaxSamples THEN r
               ELSE CHOOSE n \in {RunIterate(r, b) :
                                    b \in {IF p.kind = "2d" THEN Body2D(p, r)
                                           ELSE Body3D(p, r)}} : TRUE
          [] r.pc = "loop" /\ p.kind = "lorenz" ->
               IF r.i < Len(r.t_arr) - 1
               THEN [r EXCEPT !.sol = [r.sol EXCEPT
                                ![r.i + 1] = LorenzStateAfter(r.t_arr[r.i + 1],
                                                 r.sol[r.i + 1], p.sigma, p.rho, p.beta),
                                ![r.i + 2] = RK4Step(r.t_arr[r.i + 1], r.sol[r.i + 1],
                                                     p.dt, p.sigma, p.rho, p.beta)],
                              !.i = r.i + 1]
               ELSE [r EXCEPT !.pc = "returned"]
          [] OTHER -> r

\* the activation r run to its end
RECURSIVE RunToEnd(_)
RunToEnd(r) ==
    CHOOSE e \in {IF n = r THEN r ELSE RunToEnd(n) : n \in {RunStep(r)}} : TRUE

\* the values a projectile call returns, and those integrate_lorenz returns
Returned(r) ==
    IF r.par.kind = "lorenz" THEN <<r.t_arr, r.sol>>
    ELSE <<r.T, r.X, r.Y, r.Z, r.VX, r.VY, r.VZ, r.VREL>>

(***************************************************************************)
(* The copies of the two simulators in lab1Tests/2DSpaceTest.py and        *)
(* lab1Tests/3DSpaceTest.py.  The statements of the copies are those of    *)
(* the originals except for one line of the 2D copy, which writes the      *)
(* literal 9.81 where the original reads the local g.                      *)
(***************************************************************************)
\* the drift bug: the literal of the copy is 9.8
TestVerticalAccelDrift(F, mass) == Add(Neg(Lit(98, 10)), Div(F, mass))

\* ay = -9.81 + (Fdy + F_My) / mass of the 2D copy
TestVerticalAccel(F, mass) == Add(Neg(Lit(981, 100)), Div(F, mass))

\* the loop body of simulate_trajectory in 2DSpaceTest.py
TestBody2D(p, s) ==
    LET A     == Area(p.radius)
        rel   == <<Sub(s.vx, p.wind[1]), Sub(s.vy, p.wind[2])>>
        v_rel == Sqrt(Add(Mul(rel[1], rel[1]), Mul(rel[2], rel[2])))
        d     == Drag(p.Cd, A, rel, v_rel)
        m     == Magnus(A, p.radius, p.omega, rel, v_rel)
        ax    == Div(Add(d.F[1], m[1]), p.mass)
        ay    == TestVerticalAccel(Add(d.F[2], m[2]), p.mass)
        hx    == Advance(s.x, s.vx, ax, p.dt)
        hy    == Advance(s.y, s.vy, ay, p.dt)
    IN  [raises |-> RaisesZeroDivision(v_rel, p.mass),
         frc |-> [v_rel |-> v_rel, Fdx |-> d.F[1], Fdy |-> d.F[2], Fdz |-> 0,
                  F_Mx |-> m[1], F_My |-> m[2], ax |-> ax, ay |-> ay, az |-> 0,
                  divs |-> d.divs],
         t |-> TimeAdvance(s.t, p.dt), x |-> hx[1], y |-> hy[1], vx |-> hx[2], vy |-> hy[2]]

\* the loop body of simulate_trajectory_3d in 3DSpaceTest.py
TestBody3D(p, s) ==
    LET A     == Area(p.radius)
        rel   == <<Sub(s.vx, p.wind[1]), Sub(s.vy, p.wind[2]), Sub(s.vz, p.wind[3])>>
        v_rel == Sqrt(Add(Add(Mul(rel[1], rel[1]), Mul(rel[2], rel[2])),
                          Mul(rel[3], rel[3])))
        d     == Drag(p.Cd, A, rel, v_rel)
        ax    == Div(d.F[1], p.mass)
        ay    == Div(d.F[2], p.mass)
        az    == Add(Neg(g), Div(d.F[3], p.mass))
        hx    == Advance(s.x, s.vx, ax, p.dt)
        hy    == Advance(s.y, s.vy, ay, p.dt)
        hz    == Advance(s.z, s.vz, az, p.dt)
    IN  [raises |-> RaisesZeroDivision(v_rel, p.mass),
         frc |-> [v_rel |-> v_rel, Fdx |-> d.F[1], Fdy |-> d.F[2], Fdz |-> d.F[3],
                  F_Mx |-> 0, F_My |-> 0, ax |-> ax, ay |-> ay, az |-> az,
                  divs |-> d.divs],
         t |-> TimeAdvance(s.t, p.dt), x |-> hx[1], y |-> hy[1], z |-> hz[1],
         vx |-> hx[2], vy |-> hy[2], vz |-> hz[2]]

\* the next position of the activation r of a copy; r itself once the call has ended
TestRunStep(r) ==
    LET p == r.par
        alt == IF p.kind = "2d" THEN r.y ELSE r.z
    IN  CASE r.pc = "call" /\ p.kind \in {"2d", "3d"} -> RunStart(r)
          [] r.pc = "loop" /\ p.kind \in {"2d", "3d"} ->
               IF ~LoopCond(alt) THEN [r EXCEPT !.pc = "returned"]
               ELSE IF Len(r.T) >= MaxSamples THEN r
               ELSE CHOOSE n \in {RunIterate(r, b) :
                                    b \in {IF p.kind = "2d" THEN TestBody2D(p, r)
                                           ELSE TestBody3D(p, r)}} : TRUE
          [] OTHER -> r

\* the activation r of a copy run to its end
RECURSIVE TestRunToEnd(_)
TestRunToEnd(r) ==
    CHOOSE e \in {IF n = r THEN r ELSE TestRunToEnd(n) : n \in {TestRunStep(r)}} : TRUE

(***************************************************************************)
(* The calls that are made.                                                *)
(***************************************************************************)
NoVec == <<0, 0, 0>>

\* arguments of simulate_trajectory that satisfy the documented ranges
Valid2D ==
    [kind : {"2d"}, v0 : {0, Lit(10, 1), Lit(20, 1)},
     angle_deg : {0, 30, 45, 60, 90, -30},
     azimuth_deg : {0},
     wind : {NoVec, <<Lit(10, 1), 0, 0>>, <<-Lit(5, 1), Lit(2, 1), 0>>},
     mass : {Lit(1, 1), Lit(2, 1)}, radius : {Lit(1, 10)}, Cd : {0, Lit(1, 2)},
     omega : {0, Lit(60, 1)}, dt : {Lit(1, 10), Lit(1, 2), Lit(1, 1)},
     sigma : {0}, rho : {0}, beta : {0}, init_state : {NoVec}, t_max : {0}]

\* arguments of simulate_trajectory_3d that satisfy the documented ranges
Valid3D ==
    [kind : {"3d"}, v0 : {0, Lit(10, 1), Lit(20, 1)}, angle_deg : {0, 45, 90, -30},
     azimuth_deg : {0, 45, 90},
     wind : {NoVec, <<Lit(10, 1), 0, 0>>, <<-Lit(5, 1), Lit(3, 1), Lit(2, 1)>>,
             <<-Lit(5, 1), 0, Lit(2, 1)>>},
     mass : {Lit(1, 1), Lit(2, 1)}, radius : {Lit(1, 10)}, Cd : {0, Lit(1, 2)},
     omega : {0}, dt : {Lit(1, 10), Lit(1, 2), Lit(1, 1)},
     sigma : {0}, rho : {0}, beta : {0}, init_state : {NoVec}, t_max : {0}]

\* arguments of integrate_lorenz with t_max >= 0 and dt > 0
ValidLorenz ==
    [kind : {"lorenz"}, v0 : {0}, angle_deg : {0}, azimuth_deg : {0}, wind : {NoVec},
     mass : {0}, radius : {0}, Cd : {0}, omega : {0},
     dt : {Lit(1, 10), Lit(3, 10), Lit(1, 2)},
     sigma : {Lit(10, 1)}, rho : {Lit(28, 1)}, beta : {Lit(8, 3)},
     init_state : {<<Lit(1, 1), Lit(1, 1), Lit(1, 1)>>, NoVec,
                   <<-Lit(1, 1), -Lit(1, 1), Lit(1, 1)>>, <<0, Lit(1, 1), 0>>},
     t_max : {0, Lit(1, 2), Lit(1, 1), Lit(2, 1)}]

ValidParams == Valid2D \cup Valid3D \cup ValidLorenz

\* arguments the callers can pass because nothing validates them
Invalid2D ==
    [kind : {"2d"}, v0 : {0, Lit(10, 1)}, angle_deg : {0, 45},
     azimuth_deg : {0}, wind : {NoVec, <<Lit(10, 1), 0, 0>>},
     mass : {0, Lit(1, 1)}, radius : {-Lit(1, 10), Lit(1, 10)}, Cd : {0, Lit(1, 2)},
     omega : {0, Lit(60, 1)}, dt : {0, Lit(1, 2)},
     sigma : {0}, rho : {0}, beta : {0}, init_state : {NoVec}, t_max : {0}]

Invalid3D ==
    [kind : {"3d"}, v0 : {0, Lit(10, 1)}, angle_deg : {0, 45},
     azimuth_deg : {0, 45}, wind : {NoVec, <<Lit(10, 1), 0, 0>>},
     mass : {0, Lit(1, 1)}, radius : {-Lit(1, 10), Lit(1, 10)}, Cd : {0, Lit(1, 2)},
     omega : {0}, dt : {0, Lit(1, 2)},
     sigma : {0}, rho : {0}, beta : {0}, init_state : {NoVec}, t_max : {0}]

InvalidLorenz ==
    [kind : {"lorenz"}, v0 : {0}, angle_deg : {0}, azimuth_deg : {0}, wind : {NoVec},
     mass : {0}, radius : {0}, Cd : {0}, omega : {0},
     dt : {0, -Lit(1, 2), Lit(1, 2)},
     sigma : {Lit(10, 1)}, rho : {Lit(28, 1)}, beta : {Lit(8, 3)},
     init_state : {<<Lit(1, 1), Lit(1, 1), Lit(1, 1)>>, <<PosInf, Lit(1, 1), 0>>,
                   <<0, NaN, Lit(1, 1)>>},
     t_max : {-Lit(1, 1), 0, Lit(1, 1)}]

AnyParams == ValidParams \cup Invalid2D \cup Invalid3D \cup InvalidLorenz

\* no second call
NoRun == [pc |-> "none"]

\* the entry of the call with the arguments p
InitCall(p) ==
    /\ par = p
    /\ pc = "call" /\ exc = ""
    /\ t = 0 /\ x = 0 /\ y = 0 /\ z = 0 /\ vx = 0 /\ vy = 0 /\ vz = 0
    /\ T = <<>> /\ X = <<>> /\ Y = <<>> /\ Z = <<>>
    /\ VX = <<>> /\ VY = <<>> /\ VZ = <<>> /\ VREL = <<>>
    /\ frc = NoForces
    /\ t_arr = <<>> /\ sol = <<>> /\ i = 0

InitWith(p) == InitCall(p) /\ other = NoRun

\* a call with validated arguments
Init == \E p \in ValidParams : InitWith(p)

\* a call with any arguments
InitAny == \E p \in AnyParams : InitWith(p)

Next ==
    \/ Start2D \/ Iterate2D \/ Return2D
    \/ Start3D \/ Iterate3D \/ Return3D
    \/ LorenzStart \/ LorenzStep \/ LorenzReturn

Spec == Init /\ [][Next]_vars

SpecAny == InitAny /\ [][Next]_vars

(***************************************************************************)
(* Two calls in progress at the same time.  The first call runs on the     *)
(* variables, the second on the value other; their steps interleave in any *)
(* order.                                                                  *)
(***************************************************************************)
\* the calls that are paired: short runs of every simulator, with all forces
PairParams ==
    {p \in ValidParams :
        /\ p.dt = Lit(1, 2)
        /\ p.kind = "2d" =>
             /\ p.mass = Lit(1, 1) /\ p.v0 = Lit(10, 1) /\ p.angle_deg \in {45, 90}
             /\ p.Cd # 0 /\ p.omega # 0 /\ p.wind[2] = 0
        /\ p.kind = "3d" =>
             /\ p.mass = Lit(1, 1) /\ p.v0 = Lit(10, 1) /\ p.angle_deg = 45 /\ p.azimuth_deg = 45
             /\ p.Cd # 0 /\ p.wind # NoVec
        /\ p.kind = "lorenz" =>
             /\ p.t_max = Lit(1, 1) /\ p.init_state[2] # p.init_state[3]}

InitPair == \E p \in PairParams : \E q \in PairParams : InitCall(p) /\ other = CallRun(q)

\* the sharing bug: the lists are module-level objects, so the second call
\* appends to the lists of the first
OtherStepSharedLists ==
    /\ other.pc \in {"call", "loop"}
    /\ \E n \in {RunStep([other EXCEPT !.T = T, !.X = X, !.Y = Y, !.Z = Z, !.VX = VX,
                                       !.VY = VY, !.VZ = VZ, !.VREL = VREL])} :
         /\ n # other
         /\ other' = n
         /\ T' = n.T /\ X' = n.X /\ Y' = n.Y /\ Z' = n.Z
         /\ VX' = n.VX /\ VY' = n.VY /\ VZ' = n.VZ /\ VREL' = n.VREL
    /\ UNCHANGED <<par, pc, exc, t, x, y, z, vx, vy, vz, frc, lorVars>>

\* a step of the second call: it works on the locals of its own activation
OtherStep ==
    /\ other.pc \in {"call", "loop"}
    /\ \E n \in {RunStep(other)} :
         /\ n # other
         /\ other' = n
    /\ UNCHANGED <<par, pc, exc, projVars, lorVars>>

NextPair == Next \/ OtherStep

SpecPair == InitPair /\ [][NextPair]_vars

(***************************************************************************)
(* Vocabulary of the properties.                                           *)
(***************************************************************************)
IsProj == par.kind = "2d" \/ par.kind = "3d"
IsLorenz == par.kind = "lorenz"
\* the altitude of the running state and the recorded altitudes: y in 2D, z in 3D
altNow == IF par.kind = "3d" THEN z ELSE y
AltSeries == IF par.kind = "3d" THEN Z ELSE Y
\* the recorded lists and the running state, as tuples
series == <<T, X, Y, Z, VX, VY, VZ>>
running == <<t, x, y, z, vx, vy, vz>>
\* the axes of the running simulator
Axes == IF par.kind = "3d" THEN {2, 3, 4} ELSE {2, 3}
\* the number of columns of sol that have been written
Written == IF pc = "call" \/ Len(sol) = 0 THEN 0 ELSE i + 1
FiniteVec(v) == IsFinite(v[1]) /\ IsFinite(v[2]) /\ IsFinite(v[3])
\* a step budget a caller would supply; the simulators take no such argument
StepBudget == 50
\* the parameter errors the claims name: mass = 0, dt = 0, radius < 0
InvalidParameter(p) ==
    \/ p.dt = 0
    \/ p.kind # "lorenz" /\ (p.mass = 0 \/ p.radius < 0)

(***************************************************************************)
(* C1: in every step of simulate_trajectory and simulate_trajectory_3d the *)
(* velocity is updated first and the position is advanced with the updated *)
(* velocity: on every axis, position[k+1] = position[k] + velocity[k+1]*dt *)
(* for consecutive recorded samples, and likewise from the last recorded   *)
(* sample to the running state.                                            *)
(***************************************************************************)
C1_SymplecticOrder ==
    IsProj /\ pc \in {"loop", "returned"} =>
        \A a \in Axes :
            /\ \A k \in 1..(Len(T) - 1) :
                 series[a][k + 1] = Add(series[a][k], Mul(series[a + 3][k + 1], par.dt))
            /\ Len(T) >= 1 =>
                 running[a] = Add(series[a][Len(T)], Mul(running[a + 3], par.dt))

\* a 3D run under drag with three samples whose velocity changed on every axis
C1_Witness ==
    /\ par.kind = "3d" /\ Len(T) >= 3
    /\ VX[2] # VX[1] /\ VY[2] # VY[1] /\ VZ[2] # VZ[1]
    /\ X[3] # X[2]

C3_RecordedAboveGround ==
    IsProj => \A k \in 1..Len(AltSeries) : Ge(AltSeries[k], 0)

C3_LoopStep ==
    IsProj /\ pc = "loop" =>
        /\ (series' # series \/ running' # running) =>
              /\ Ge(altNow, 0)
              /\ \A a \in 1..7 : a = 1 \/ a \in Axes \/ a - 3 \in Axes =>
                                    series'[a] = Append(series[a], running[a])
        /\ pc' = "returned" =>
              /\ ~Ge(altNow, 0)
              /\ series' = series /\ running' = running
        /\ ~Ge(altNow, 0) => series' = series /\ running' = running

C3_RunnerLoop == [](C3_RecordedAboveGround) /\ [][C3_LoopStep]_vars

\* a run that recorded its initial state at altitude 0, flew, and returned from below
C3_Witness ==
    /\ IsProj /\ pc = "returned" /\ Len(T) >= 2
    /\ AltSeries[1] = 0 /\ altNow < 0 /\ par.Cd # 0

(***************************************************************************)
(* C4 as stated: a run requested with mass = 0, dt = 0 or radius < 0 is    *)
(* rejected with InvalidParameter before the first step and before any     *)
(* sample is recorded, and returns no series.                              *)
(***************************************************************************)
C4_InvalidParameterRejected ==
    InvalidParameter(par) =>
        /\ Len(T) = 0 /\ Written = 0
        /\ pc # "returned"
        /\ pc = "raised" => exc = "InvalidParameter"

(***************************************************************************)
(* C5 as stated: no non-finite sample is ever appended to the series; a    *)
(* state that becomes non-finite aborts the run at that step.              *)
(***************************************************************************)
C5_NoNonFiniteSample ==
    /\ IsLorenz => \A k \in 1..Written : FiniteVec(sol[k])
    /\ IsProj => \A a \in 1..7 : \A k \in 1..Len(series[a]) : IsFinite(series[a][k])

(***************************************************************************)
(* C6 as stated: a ground-impact run that has not dropped below the ground *)
(* within the caller's step budget stops there with the truncated series:  *)
(* no run records more samples than the budget.                            *)
(***************************************************************************)
C6_StepBudgetRespected ==
    IsProj => Len(T) <= StepBudget

(***************************************************************************)
(* C7 as stated: integrate_lorenz returns exactly floor(t_max/dt) + 1      *)
(* time points and state columns for every t_max >= 0 and dt > 0.          *)
(***************************************************************************)
C7_SampleCount ==
    IsLorenz /\ pc \in {"loop", "returned"} /\ par.t_max >= 0 /\ par.dt > 0 =>
        /\ Len(t_arr) = par.t_max \div par.dt + 1
        /\ Len(sol) = par.t_max \div par.dt + 1

(***************************************************************************)
(* C8: every step of integrate_lorenz is the classic RK4 rule on the full  *)
(* state: k1 = f(s), k2 = f(s + dt/2*k1), k3 = f(s + dt/2*k2),             *)
(* k4 = f(s + dt*k3), all from the same sample s = sol[:, k], and          *)
(* sol[:, k+1] = s + dt/6*(k1 + 2*k2 + 2*k3 + k4).                         *)
(***************************************************************************)
C8_Field(s) == Lorenz(0, s, par.sigma, par.rho, par.beta)

C8_ClassicRK4 ==
    IsLorenz =>
        \A k \in 1..(Written - 1) :
            LET s  == sol[k]
                h  == Div(par.dt, TWO)
                k1 == C8_Field(s)
                k2 == C8_Field(VAdd(s, VScale(h, k1)))
                k3 == C8_Field(VAdd(s, VScale(h, k2)))
                k4 == C8_Field(VAdd(s, VScale(par.dt, k3)))
                w  == VAdd(VAdd(VAdd(k1, VScale(TWO, k2)), VScale(TWO, k3)), k4)
            IN  sol[k + 1] = VAdd(s, VScale(Div(par.dt, SIX), w))

\* three finite, pairwise different samples have been computed
C8_Witness ==
    /\ IsLorenz /\ Written >= 3
    /\ FiniteVec(sol[3]) /\ sol[3] # sol[2] /\ sol[2] # sol[1]

(***************************************************************************)
(* C9: lorenz(t, (x, y, z), sigma, rho, beta) is                           *)
(* (sigma*(y - x), x*(rho - z) - y, x*y - beta*z) and does not depend on   *)
(* the time argument t.                                                    *)
(***************************************************************************)
\* the time arguments integrate_lorenz passes: t[k], t[k] + dt/2, t[k] + dt
C9_Times ==
    UNION {{t_arr[k], Add(t_arr[k], Div(par.dt, TWO)), Add(t_arr[k], par.dt)} :
             k \in 1..Len(t_arr)}

C9_LorenzField ==
    IsLorenz =>
        \A k \in 1..Written :
            LET s == sol[k]
                f == <<Mul(par.sigma, Sub(s[2], s[1])),
                       Sub(Mul(s[1], Sub(par.rho, s[3])), s[2]),
                       Sub(Mul(s[1], s[2]), Mul(par.beta, s[3]))>>
            IN  \A t1 \in C9_Times : Lorenz(t1, s, par.sigma, par.rho, par.beta) = f

\* a computed sample with a non-zero derivative on every axis, and several times
C9_Witness ==
    /\ IsLorenz /\ Written >= 2 /\ Cardinality(C9_Times) >= 3
    /\ FiniteVec(sol[2])
    /\ \A c \in 1..3 : Lorenz(0, sol[2], par.sigma, par.rho, par.beta)[c] # 0

(***************************************************************************)
(* C10: whenever the wind-relative speed is exactly 0 at a projectile step *)
(* (the recorded velocity equals the wind vector), the drag force and the  *)
(* Magnus force are the zero vector, no division by the relative speed is  *)
(* evaluated, and for mass # 0 the acceleration of that step is gravity    *)
(* alone: (0, -g) in 2D and (0, 0, -g) in 3D.                              *)
(***************************************************************************)
\* the wind-relative speed recorded for the last step is exactly 0
C10_AtRest ==
    /\ IsProj /\ Len(T) >= 1
    /\ VREL[Len(T)] = 0

C10_ZeroSpeedBranch ==
    C10_AtRest =>
        /\ frc.v_rel = 0
        /\ frc.Fdx = 0 /\ frc.Fdy = 0 /\ frc.Fdz = 0
        /\ frc.F_Mx = 0 /\ frc.F_My = 0
        /\ frc.divs = 0
        /\ par.mass # 0 =>
             /\ frc.ax = 0
             /\ par.kind = "2d" => frc.ay = -g
             /\ par.kind = "3d" => frc.ay = 0 /\ frc.az = -g
             /\ \A a \in Axes :
                  running[a + 3] = Add(series[a + 3][Len(T)],
                                       Mul(IF a + 1 \notin Axes THEN -g ELSE 0, par.dt))

\* a launch that moves exactly with a non-zero wind, with drag and spin switched on
C10_Witness ==
    /\ C10_AtRest /\ par.wind[1] # 0 /\ par.mass # 0
    /\ VX[Len(T)] = par.wind[1] /\ VY[Len(T)] = par.wind[2]
    /\ par.Cd # 0 /\ par.kind = "2d" /\ par.omega # 0

(***************************************************************************)
(* C11. Time advances by exactly dt per step and never decreases: the      *)
(* first recorded time is 0, consecutive recorded times differ by dt, and  *)
(* therefore the time of sample number k (counted from 0) is k * dt, in    *)
(* every projectile run and in the time grid of integrate_lorenz.          *)
(***************************************************************************)
\* the recorded times: the list T of a projectile run, the grid t of integrate_lorenz
C11_Clock == IF IsProj THEN T ELSE t_arr

C12_LaunchVelocity ==
    IF par.kind = "2d"
    THEN <<Mul(par.v0, CosDeg(par.angle_deg)), Mul(par.v0, SinDeg(par.angle_deg)), 0>>
    ELSE <<Mul(Mul(par.v0, CosDeg(par.angle_deg)), CosDeg(par.azimuth_deg)),
           Mul(Mul(par.v0, CosDeg(par.angle_deg)), SinDeg(par.azimuth_deg)),
           Mul(par.v0, SinDeg(par.angle_deg))>>

C12_FirstSampleIsInitial ==
    /\ IsProj /\ pc = "returned" => Len(T) >= 1
    /\ IsProj /\ Len(T) >= 1 =>
         /\ T[1] = 0
         /\ \A a \in Axes :
              /\ Len(series[a]) >= 1 /\ Len(series[a + 3]) >= 1
              /\ series[a][1] = 0
              /\ series[a + 3][1] = C12_LaunchVelocity[a - 1]
    /\ IsLorenz /\ pc \in {"loop", "returned"} =>
         /\ Len(sol) >= 1
         /\ sol[1] = par.init_state

\* a returned 2D run of several samples launched at 30 degrees: the two velocity
\* components at launch differ, and the second sample differs from the first
C12_Witness ==
    /\ par.kind = "2d" /\ pc = "returned" /\ Len(T) >= 3
    /\ par.angle_deg = 30 /\ par.v0 > 0
    /\ VX[1] # VY[1]
    /\ Y[2] # Y[1] /\ VY[2] # VY[1]

(***************************************************************************)
(* C13. With zero wind, zero spin and zero drag, the run of a projectile   *)
(* of mass 2m returns the same series as the run of mass m, all other      *)
(* arguments equal: the same number of samples and the same time, position *)
(* and velocity at every index.                                            *)
(***************************************************************************)
\* the call under way was made without wind, spin and drag
C13_ForceFree ==
    /\ IsProj /\ par.wind = NoVec /\ par.omega = 0 /\ par.Cd = 0

\* the values the call under way has returned
C13_ReturnedNow == <<T, X, Y, Z, VX, VY, VZ, VREL>>

C13_MassIndependent ==
    C13_ForceFree /\ pc = "returned" =>
        C13_ReturnedNow = Returned(RunToEnd(CallRun([par EXCEPT !.mass = 2 * par.mass])))

\* a returned run without forces other than gravity that flew for several samples
C13_Witness ==
    /\ C13_ForceFree /\ pc = "returned"
    /\ Len(T) >= 4 /\ par.v0 > 0 /\ par.mass > 0
    /\ \E k \in 1..Len(T) : altNow < 0 /\ AltSeries[k] > 0

(***************************************************************************)
(* C14. Without drag, wind and spin the horizontal positions are the       *)
(* classical ones, X[n] = v0*cos(theta)*T[n] (both horizontal axes in 3D), *)
(* but the altitude is the discrete one: sample 0 is on the parabola, and  *)
(* every later sample lies below it by g*dt*T[n]/2, that is                *)
(*   alt[n] = v0*sin(theta)*T[n] - 0.5*g*T[n]^2 - 0.5*g*dt*T[n].           *)
(* The formulas are stated for dt = 1.0, where T[n] = n and no product     *)
(* with dt is rounded, and are doubled to stay in the integers.            *)
(***************************************************************************)
\* a call without drag, wind and spin whose time step is 1.0
C14_ClassicalCase ==
    /\ IsProj /\ par.wind = NoVec /\ par.omega = 0 /\ par.Cd = 0
    /\ par.dt = Lit(1, 1)

\* the recorded velocity on the vertical axis
C14_VAlt == IF par.kind = "2d" THEN VY ELSE VZ

\* the horizontal positions of sample k + 1 are those of uniform motion
C14_Horizontal(k) ==
    /\ X[k + 1] = k * VX[1]
    /\ par.kind = "3d" => Y[k + 1] = k * VY[1]

C16_IsStep == IsLorenz /\ pc = "loop" /\ i' = i + 1

C16_StepFrame ==
    C16_IsStep =>
        /\ par' = par
        /\ t_arr' = t_arr
        /\ sol'[i + 1] = sol[i + 1]
        /\ sol'[i + 2] = RK4Step(t_arr[i + 1], sol[i + 1], par.dt,
                                 par.sigma, par.rho, par.beta)

\* written samples that are equal are followed by equal samples
C16_NoHiddenState ==
    IsLorenz =>
        \A k, j \in 1..(Written - 1) : sol[k] = sol[j] => sol[k + 1] = sol[j + 1]

C16_PureField == [](C16_NoHiddenState) /\ [][C16_StepFrame]_vars

\* three steps were taken from a sample where the field is not zero, and the
\* samples are finite and pairwise different
C16_Witness ==
    /\ IsLorenz /\ pc = "loop" /\ i >= 3
    /\ \A k \in 1..4 : FiniteVec(sol[k])
    /\ \A k, j \in 1..4 : k # j => sol[k] # sol[j]

(***************************************************************************)
(* C17. Runs share no mutable state: when the steps of two calls are       *)
(* interleaved in any order, each call ends exactly as it ends when it is  *)
(* executed alone (same outcome, same returned series), and two calls with *)
(* identical arguments return identical series.                            *)
(***************************************************************************)
\* the first call, as a value
C17_ThisRun ==
    [par |-> par, pc |-> pc, exc |-> exc,
     t |-> t, x |-> x, y |-> y, z |-> z, vx |-> vx, vy |-> vy, vz |-> vz,
     T |-> T, X |-> X, Y |-> Y, Z |-> Z, VX |-> VX, VY |-> VY, VZ |-> VZ, VREL |-> VREL,
     t_arr |-> t_arr, sol |-> sol, i |-> i]

C17_Ended(r) == r.pc \in {"returned", "raised"}

\* r ended as the call with its arguments ends when nothing else runs
C17_AsAlone(r) ==
    \E e \in {RunToEnd(CallRun(r.par))} :
        /\ r.pc = e.pc /\ r.exc = e.exc
        /\ Returned(r) = Returned(e)
        /\ r = e

C17_RunsIsolated ==
    /\ C17_Ended(C17_ThisRun) => C17_AsAlone(C17_ThisRun)
    /\ C17_Ended(other) => C17_AsAlone(other)
    /\ C17_Ended(C17_ThisRun) /\ C17_Ended(other) /\ par = other.par =>
         Returned(C17_ThisRun) = Returned(other)

\* two projectile calls with different arguments have both returned several samples
C17_Witness ==
    /\ IsProj /\ pc = "returned" /\ Len(T) >= 3
    /\ other.pc = "returned" /\ Len(other.T) >= 3
    /\ other.par.kind \in {"2d", "3d"}
    /\ par # other.par

(***************************************************************************)
(* C18. integrate_lorenz does not validate its samples and diverges        *)
(* silently: once the loop is entered no error is raised, the call returns *)
(* all num_steps samples, and after a sample with a component that is not  *)
(* finite (given in init_state or produced by a step) every later sample   *)
(* has a component that is not finite.                                     *)
(***************************************************************************)
C18_SilentDivergence ==
    IsLorenz =>
        /\ pc = "raised" => Len(sol) = 0 /\ Written = 0
        /\ pc \in {"loop", "returned"} =>
             /\ exc = ""
             /\ Len(sol) = NumSteps(par.t_max, par.dt) /\ Len(sol) = Len(t_arr)
             /\ pc = "returned" => Written = Len(sol)
             /\ \A k \in 1..Written : \A j \in k..Written :
                    ~FiniteVec(sol[k]) => ~FiniteVec(sol[j])

\* a returned call with finite arguments in which a step produced the first
\* sample that is not finite, followed by at least two more samples
C18_Witness ==
    /\ IsLorenz /\ pc = "returned" /\ Written = Len(sol)
    /\ FiniteVec(par.init_state)
    /\ \E k \in 2..(Len(sol) - 2) :
         /\ FiniteVec(sol[k - 1]) /\ ~FiniteVec(sol[k])
         /\ ~FiniteVec(sol[Len(sol)])

(***************************************************************************)
(* C19. The lists of a projectile run (T, X, Y, VX, VY, VREL; in 3D also   *)
(* Z and VZ) always have the same length, and index k of every list        *)
(* describes the same state before its step: VREL[k] is not negative and   *)
(* is the square root of the sum over the axes of (V[k] - wind)^2, for the *)
(* velocity recorded at the same index k.                                  *)
(***************************************************************************)
\* the square of the wind-relative velocity recorded at index k, on axis a
C19_RelSquared(k, a) ==
    Mul(Sub(series[a + 3][k], par.wind[a - 1]), Sub(series[a + 3][k], par.wind[a - 1]))

\* the sum of the squares over the axes, added in the order x, y, z
C19_SumSquares(k) ==
    IF par.kind = "2d"
    THEN Add(C19_RelSquared(k, 2), C19_RelSquared(k, 3))
    ELSE Add(Add(C19_RelSquared(k, 2), C19_RelSquared(k, 3)), C19_RelSquared(k, 4))

C19_ListsAligned ==
    IsProj =>
        /\ Len(VREL) = Len(T)
        /\ \A a \in Axes : Len(series[a]) = Len(T) /\ Len(series[a + 3]) = Len(T)
        /\ \A k \in 1..Len(T) :
             /\ Ge(VREL[k], 0)
             /\ VREL[k] = Sqrt(C19_SumSquares(k))

\* a run in wind and drag with three samples whose relative speed changed each step
C19_Witness ==
    /\ IsProj /\ Len(T) >= 3
    /\ par.wind # NoVec /\ par.Cd # 0
    /\ VREL[1] > 0 /\ VREL[2] > 0 /\ VREL[3] > 0
    /\ VREL[1] # VREL[2] /\ VREL[2] # VREL[3]

(***************************************************************************)
(* C20. The series is append-only: every iteration of a projectile loop    *)
(* appends exactly one sample to each of its lists and no step changes or  *)
(* removes a sample recorded earlier; in integrate_lorenz step i writes    *)
(* column i + 1 only and leaves every other column, columns 0..i among     *)
(* them, and the time grid unchanged.                                      *)
(***************************************************************************)
\* the list after the step is the list before it, or that list with one more element
C20_Extends(before, after) ==
    \/ after = before
    \/ /\ Len(after) = Len(before) + 1
       /\ SubSeq(after, 1, Len(before)) = before

\* the step is an iteration of the while loop of a projectile run
C20_IsIteration == IsProj /\ pc = "loop" /\ pc' # "returned" /\ vars' # vars

C20_ProjectileStep ==
    IsProj =>
        /\ C20_Extends(T, T') /\ C20_Extends(VREL, VREL')
        /\ C20_Extends(X, X') /\ C20_Extends(Y, Y') /\ C20_Extends(Z, Z')
        /\ C20_Extends(VX, VX') /\ C20_Extends(VY, VY') /\ C20_Extends(VZ, VZ')
        /\ C20_IsIteration =>
             /\ Len(T') = Len(T) + 1 /\ Len(VREL') = Len(VREL) + 1
             /\ \A a \in Axes : /\ Len(series[a]') = Len(series[a]) + 1
                                /\ Len(series[a + 3]') = Len(series[a + 3]) + 1

C20_LorenzStep ==
    IsLorenz /\ pc = "loop" =>
        /\ t_arr' = t_arr
        /\ Len(sol') = Len(sol)
        /\ i' \in {i, i + 1}
        /\ i' = i => sol' = sol
        /\ i' = i + 1 =>
             /\ \A k \in 1..Len(sol) : k # i + 2 => sol'[k] = sol[k]
             /\ sol[i + 2] = <<Uninit, Uninit, Uninit>>
             /\ sol'[i + 2] # <<Uninit, Uninit, Uninit>>

C20_AppendOnly == [][C20_ProjectileStep /\ C20_LorenzStep]_vars

\* a projectile run that has appended three different samples
C20_Witness ==
    /\ IsProj /\ pc = "loop" /\ Len(T) >= 3
    /\ Y[1] # Y[2] /\ Y[2] # Y[3] /\ X[2] # X[3]
    /\ VREL[1] # VREL[2]

(***************************************************************************)
(* C21. The 2D Magnus force is the wind-relative velocity turned by a      *)
(* right angle and scaled: F_Mx = c * vy_rel and F_My = -c * vx_rel with   *)
(* one coefficient c = 0.5*rho*A*radius*omega, and (0, 0) at relative      *)
(* speed zero.  The computed dot product F_Mx*vx_rel + F_My*vy_rel is zero *)
(* up to the rounding of the four products, not exactly.                   *)
(***************************************************************************)
\* the wind-relative velocity of the last iteration, from the recorded velocity
C21_Rel == <<Sub(VX[Len(T)], par.wind[1]), Sub(VY[Len(T)], par.wind[2])>>

\* F_Mx*vx_rel + F_My*vy_rel as the program's arithmetic evaluates it
C21_Dot == Add(Mul(frc.F_Mx, C21_Rel[1]), Mul(frc.F_My, C21_Rel[2]))

\* an iteration of the 2D simulator has computed its forces
C21_Computed == par.kind = "2d" /\ Len(T) >= 1

\* the statement as claimed: the computed dot product is exactly zero
C21_ExactlyPerpendicular == C21_Computed => C21_Dot = 0

C21_PerpendicularUpToRounding ==
    C21_Computed =>
        LET c == Mul(Mul(Mul(Mul(HALF, rho_air), Area(par.radius)), par.radius), par.omega)
        IN  IF VREL[Len(T)] = 0
            THEN frc.F_Mx = 0 /\ frc.F_My = 0
            ELSE /\ frc.F_Mx = Mul(c, C21_Rel[2])
                 /\ frc.F_My = Mul(Neg(c), C21_Rel[1])
                 /\ 2 * SCALE * Abs(C21_Dot)
                      <= Abs(C21_Rel[1]) + Abs(C21_Rel[2]) + 2 * SCALE

\* a spinning projectile in wind whose Magnus force has two non-zero components
\* and whose computed dot product is not zero
C21_Witness ==
    /\ C21_Computed /\ Len(T) >= 2
    /\ par.omega # 0 /\ par.wind # NoVec
    /\ frc.F_Mx # 0 /\ frc.F_My # 0
    /\ C21_Dot # 0

(***************************************************************************)
(* C22. For relative speed s > 0 the drag force the code computes on each  *)
(* axis, -Fd * (rel / s) with Fd = 0.5*rho*Cd*A*s^2, is the vector form    *)
(* -0.5*rho*Cd*A*s*rel up to the rounding of the operations; for Cd >= 0   *)
(* each component is zero or has the sign opposite to the relative         *)
(* velocity on its axis, and no component exceeds Fd in magnitude.         *)
(***************************************************************************)
\* the wind-relative velocity of the last iteration on the axes x, y, z
C22_Rel == [a \in Axes |-> Sub(series[a + 3][Len(T)], par.wind[a - 1])]

\* the drag components of the last iteration on the axes x, y, z
C22_Drag == [a \in Axes |-> <<frc.Fdx, frc.Fdy, frc.Fdz>>[a - 1]]

\* 0.5 * rho * Cd * A
C22_K == Mul(Mul(Mul(HALF, rho_air), par.Cd), Area(par.radius))

\* an iteration has computed its drag at a relative speed above zero
C22_Moving == IsProj /\ Len(T) >= 1 /\ VREL[Len(T)] > 0 /\ pc # "raised"

C22_DragVectorForm ==
    C22_Moving =>
        \E s \in {VREL[Len(T)]} : \E Fd \in {Mul(C22_K, Mul(s, s))} :
        \A a \in Axes :
            /\ C22_Drag[a] = 0 \/ Sgn(C22_Drag[a]) = -Sgn(C22_Rel[a])
            /\ Abs(C22_Drag[a]) <= Fd + 1
            /\ 2 * SCALE * Abs(Sub(C22_Drag[a], Mul(Neg(Mul(C22_K, s)), C22_Rel[a])))
                 <= C22_K + Fd + Abs(C22_Rel[a]) + 4 * SCALE

\* a run in wind with drag whose drag force is not zero on two axes
C22_Witness ==
    /\ C22_Moving /\ Len(T) >= 2
    /\ par.Cd > 0 /\ par.wind # NoVec
    /\ frc.Fdx > 0 /\ frc.Fdy # 0
    /\ C22_Rel[2] < 0

(***************************************************************************)
(* C24. A projectile run with Cd = 0, omega = 0, mass # 0 and dt > 0 ends  *)
(* after recording exactly max(1, floor(2*v0*sin(theta)/(g*dt))) samples: *)
(* the loop condition holds while fewer samples are recorded and fails     *)
(* once that many are, so the run returns after that many iterations; a    *)
(* launch with v0*sin(theta) <= 0 returns one sample.  Stated for          *)
(* dt = 1.0, where the arithmetic of the run is exact.                     *)
(***************************************************************************)
\* a call without drag and spin whose time step is 1.0
C24_ExactCase ==
    /\ IsProj /\ par.omega = 0 /\ par.Cd = 0 /\ par.mass # 0
    /\ par.dt = Lit(1, 1)

\* v0*sin(theta), as the launch computes it
C24_VerticalLaunch == Mul(par.v0, SinDeg(par.angle_deg))

\* max(1, floor(2*v0*sin(theta)/(g*dt))) for dt = 1.0
C24_Count ==
    IF (2 * C24_VerticalLaunch) \div g >= 1 THEN (2 * C24_VerticalLaunch) \div g ELSE 1

C25_ExactCase ==
    /\ IsProj /\ par.wind = NoVec /\ par.omega = 0 /\ par.Cd = 0
    /\ par.dt = Lit(1, 1) /\ Len(T) >= 1

\* the vertical velocity at launch, as recorded
C25_V0 == IF par.kind = "2d" THEN VY[1] ELSE VZ[1]

\* the formula of sample n, and the bounds that follow from it
C25_Sample(n) ==
    /\ T[n] = (n - 1) * par.dt
    /\ X[n] = (n - 1) * VX[1]
    /\ par.kind = "3d" => Y[n] = (n - 1) * VY[1]
    /\ 2 * AltSeries[n] = 2 * (n - 1) * C25_V0 - g * (n - 1) * (n - 1) - g * (n - 1)
    /\ 2 * AltSeries[n] <= 2 * (n - 1) * C25_V0 - g * (n - 1) * (n - 1)
    /\ 2 * Mul(g, AltSeries[n]) <= Mul(C25_V0, C25_V0) + 2

\* the time of sample n is at most 2*v0*sin(theta)/g
C25_WithinFlightTime(n) == g * (n - 1) <= 2 * C25_V0

C26_ZeroStep == IsProj /\ par.dt = 0 /\ par.mass # 0

C26_StateFrozen ==
    C26_ZeroStep =>
        /\ pc \in {"call", "loop"} /\ exc = ""
        /\ pc = "loop" =>
             /\ LoopCond(altNow) /\ altNow = 0
             /\ t = 0 /\ x = 0 /\ y = 0 /\ z = 0
             /\ \A a \in Axes : running[a + 3] = C12_LaunchVelocity[a - 1]
             /\ \A k \in 1..Len(T) :
                    /\ T[k] = 0
                    /\ \A a \in Axes : /\ series[a][k] = 0
                                       /\ series[a + 3][k] = running[a + 3]

\* an iteration of such a run appends exactly one sample and stays in the loop
C26_Grows ==
    C26_ZeroStep /\ pc = "loop" /\ vars' # vars =>
        /\ pc' = "loop"
        /\ T' = Append(T, 0)
        /\ running' = running

C26_NeverTerminates == [](C26_StateFrozen) /\ [][C26_Grows]_vars

\* a zero-step run under drag and wind that has filled the model's bound on the
\* number of samples
C26_Witness ==
    /\ C26_ZeroStep /\ pc = "loop" /\ Len(T) = MaxSamples
    /\ par.v0 > 0 /\ par.Cd # 0 /\ par.wind # NoVec

(***************************************************************************)
(* C27. With Cd = 0 and omega = 0 the wind has no influence on the motion: *)
(* a projectile run returns the same T, position and velocity lists as the *)
(* run with any other wind vector and otherwise equal arguments; only the  *)
(* VREL lists may differ.                                                  *)
(***************************************************************************)
\* the call under way has no drag and no spin
C27_NoAerodynamics == IsProj /\ par.Cd = 0 /\ par.omega = 0

\* the wind vectors of the calls of the same simulator
C27_Winds == {p.wind : p \in {q \in ValidParams : q.kind = par.kind}}

\* what the call with the wind w and otherwise the arguments under way returns
C27_WithWind(w) == Returned(RunToEnd(CallRun([par EXCEPT !.wind = w])))

C27_WindIndependent ==
    C27_NoAerodynamics /\ pc = "returned" =>
        \A w \in C27_Winds :
            \E r \in {C27_WithWind(w)} :
                /\ Len(r[1]) = Len(T)
                /\ <<r[1], r[2], r[3], r[4], r[5], r[6], r[7]>> = <<T, X, Y, Z, VX, VY, VZ>>

\* a returned run in wind of several samples whose VREL list is not the one of
\* the run without wind
C27_Witness ==
    /\ C27_NoAerodynamics /\ pc = "returned" /\ Len(T) >= 3
    /\ par.wind # NoVec /\ par.v0 > 0
    /\ C27_WithWind(NoVec)[8] # VREL

(***************************************************************************)
(* C28. The 3D simulator restricted to a vertical plane is the 2D          *)
(* simulator without spin: for azimuth = 0 and wind (wx, 0, wz) every      *)
(* sample of simulate_trajectory_3d has Y = 0 and VY = 0, and its lists    *)
(* T, X, Z, VX, VZ, VREL are the lists T, X, Y, VX, VY, VREL that          *)
(* simulate_trajectory returns for omega = 0, wind (wx, wz) and the same   *)
(* v0, angle, mass, radius, Cd and dt.                                     *)
(***************************************************************************)
\* a 3D call whose launch and wind lie in the plane y = 0
C28_InPlane == par.kind = "3d" /\ par.azimuth_deg = 0 /\ par.wind[2] = 0

\* the arguments of the 2D call of the same launch in that plane
C28_PlaneArgs ==
    [par EXCEPT !.kind = "2d", !.azimuth_deg = 0, !.omega = 0,
                !.wind = <<par.wind[1], par.wind[3], 0>>]

C28_PlaneRestriction ==
    C28_InPlane =>
        /\ \A k \in 1..Len(T) : Y[k] = 0 /\ VY[k] = 0
        /\ pc = "returned" =>
             \E r \in {Returned(RunToEnd(CallRun(C28_PlaneArgs)))} :
                 /\ Len(r[1]) = Len(T)
                 /\ <<r[1], r[2], r[3], r[5], r[6], r[8]>> = <<T, X, Z, VX, VZ, VREL>>

\* a returned 3D run in the plane, under drag and a wind with a vertical
\* component, of at least three samples
C28_Witness ==
    /\ C28_InPlane /\ pc = "returned" /\ Len(T) >= 3
    /\ par.Cd # 0 /\ par.wind[1] # 0 /\ par.wind[3] # 0
    /\ VX[1] > 0 /\ VZ[1] > 0 /\ VX[2] # VX[1]

(***************************************************************************)
(* C29. integrate_lorenz preserves the mirror symmetry                     *)
(* (x, y, z) -> (-x, -y, z) of the Lorenz system: for the same sigma, rho, *)
(* beta, t_max and dt, the run started from (-x0, -y0, z0) has the same    *)
(* time grid and at every index the sample (-x_i, -y_i, z_i) of the run    *)
(* started from (x0, y0, z0).                                              *)
(***************************************************************************)
\* the mirror image of a sample
C29_Mirror(v) == <<Neg(v[1]), Neg(v[2]), v[3]>>

\* what integrate_lorenz returns from the mirrored initial state
C29_MirroredRun ==
    Returned(RunToEnd(CallRun([par EXCEPT !.init_state = C29_Mirror(par.init_state)])))

C29_MirrorSymmetry ==
    IsLorenz /\ pc = "returned" =>
        \E r \in {C29_MirroredRun} :
            /\ r[1] = t_arr
            /\ Len(r[2]) = Len(sol)
            /\ \A k \in 1..Len(sol) : r[2][k] = C29_Mirror(sol[k])

\* a returned run of at least four finite samples off the axis of the symmetry
C29_Witness ==
    /\ IsLorenz /\ pc = "returned" /\ Len(sol) >= 4
    /\ par.init_state[1] # 0
    /\ \A k \in 1..4 : FiniteVec(sol[k]) /\ sol[k][1] # 0 /\ sol[k][2] # 0
    /\ sol[2] # sol[1] /\ sol[3] # sol[2]

(***************************************************************************)
(* C30. The simulators copied into the test modules behave as the ones     *)
(* they validate: for every input, simulate_trajectory of 2DSpaceTest.py   *)
(* ends as simulate_trajectory of 2DSpace.py does (returns the same lists, *)
(* or raises the same error after the same samples), and likewise          *)
(* simulate_trajectory_3d of 3DSpaceTest.py and of 3DSpace.py.             *)
(***************************************************************************)
\* the projectile call under way has ended
C30_Ended == IsProj /\ pc \in {"returned", "raised"}

C30_CopiesAgree ==
    C30_Ended =>
        \E e \in {TestRunToEnd(CallRun(par))} :
            /\ e.pc = pc /\ e.exc = exc
            /\ Returned(e) = <<T, X, Y, Z, VX, VY, VZ, VREL>>

\* a returned 2D run under drag, spin and wind of at least four samples
C30_Witness ==
    /\ C30_Ended /\ par.kind = "2d" /\ pc = "returned" /\ Len(T) >= 4
    /\ par.Cd # 0 /\ par.omega # 0 /\ par.wind # NoVec
    /\ VY[2] # VY[1] /\ VY[3] # VY[2]

=============================================================================
